---- MODULE Spec2Model ----
(***************************************************************************)
(* BotBash 3D arena combat: the per-frame simulation of App.tsx            *)
(* (src/unnamed/part_001; index.tsx holds the same loop inlined).          *)
(*                                                                         *)
(* Numbers.  The program computes in IEEE doubles; the model computes in   *)
(* fixed point.  Lengths, velocities and dimensionless factors are         *)
(* integers in units of 1/Scale, angles are integers in units of           *)
(* 1/AngScale radian, health is an integer (the program only ever          *)
(* subtracts whole numbers from 100), and the clock counts 1/ClockScale    *)
(* second.  A product of two scaled numbers is rescaled with truncation    *)
(* toward zero, which is symmetric in the sign like the float product.     *)
(* The y component of every Vector3 of the simulation is 0 throughout       *)
(* (initGame creates it 0, `forward` has y = 0), so a vector is [x, z].    *)
(***************************************************************************)
EXTENDS Integers, Sequences, FiniteSets, TLC

\* ------------------------------------------------------------ resolution
Scale == 10000
AngScale == 1000
ClockScale == 10

\* ------------------------------------------------------------- constants
ARENA_SIZE == 22 * Scale
WALL_GAP == 5 * Scale
ROBOT_RADIUS == (8 * Scale) \div 10
MAX_ROBOT_HEALTH == 100
MOVE_SPEED == (8 * Scale) \div 1000
ENEMY_SPEED_MULT == (4 * Scale) \div 10
TURN_SPEED == (8 * AngScale) \div 100
FRICTION == (92 * Scale) \div 100
KNOCKBACK_FORCE == (15 * Scale) \div 100
WEAPON_DAMAGE == 15
ENEMY_COUNT == 3

\* Math.PI, in 1/AngScale radian
PI == 3142
TWO_PI == 6283
HALF_PI == 1571

\* the literals of the frame callback
BOUNCE == (-3 * Scale) \div 10
PIT_MARGIN == (5 * Scale) \div 10
MIN_DIST == (21 * ROBOT_RADIUS) \div 10
\* SEPARATION, were each entity moved by the whole overlap
SEPARATION_WHOLE == (10 * Scale) \div 10
SEPARATION == (4 * Scale) \div 10
SPINNER_KNOCK == (2 * Scale) \div 10
STUN_TIME == (2 * ClockScale) \div 10
\* AI_TURN, were an enemy to turn as fast as the player
AI_TURN_FULL == TURN_SPEED

AI_TURN == (3 * TURN_SPEED) \div 10
AI_THRUST_ANGLE == (5 * AngScale) \div 10
SPAWN_DIST == 6 * Scale

GameStates == {"START", "PLAYING", "GAME_OVER", "VICTORY"}
GAME_KEYS == {"ArrowUp", "ArrowDown", "ArrowLeft", "ArrowRight",
              "KeyW", "KeyA", "KeyS", "KeyD", "Space"}

\* ------------------------------------------------------------ arithmetic
Abs(a) == IF a < 0 THEN -a ELSE a

Sign(a) == IF a > 0 THEN 1 ELSE IF a < 0 THEN -1 ELSE 0

Min(a, b) == IF a < b THEN a ELSE b

Max(a, b) == IF a > b THEN a ELSE b

\* a / b truncated toward zero (b > 0)
TDiv(a, b) == IF a >= 0 THEN a \div b ELSE -((-a) \div b)

\* the product of two numbers in units of 1/Scale
Mul(a, b) == TDiv(a * b, Scale)

\* floor of the square root, by bisection on [lo, hi]
RECURSIVE ISqrtRec(_, _, _)
ISqrtRec(n, lo, hi) ==
  IF lo >= hi THEN lo
  ELSE LET mid == (lo + hi + 1) \div 2
       IN IF mid * mid <= n THEN ISqrtRec(n, mid, hi) ELSE ISqrtRec(n, lo, mid - 1)

ISqrt(n) == ISqrtRec(n, 0, 3 * Scale)

\* sin of an angle in [0, HALF_PI], in units of 1/Scale: the Taylor series
\* x (1 - x^2/6 (1 - x^2/20 (1 - x^2/42 (1 - x^2/72))))
SinQuarter(a) ==
  LET x2 == (a * a) \div 100
      t4 == Scale - x2 \div 72
      t3 == Scale - ((x2 * t4) \div Scale) \div 42
      t2 == Scale - ((x2 * t3) \div Scale) \div 20
      t1 == Scale - ((x2 * t2) \div Scale) \div 6
  IN (a * t1) \div AngScale

\* Math.sin
Sin(a) ==
  LET m == a % TWO_PI
      h == IF m > PI THEN m - PI ELSE m
      q == IF h > HALF_PI THEN PI - h ELSE h
      s == SinQuarter(q)
  IN IF m > PI THEN -s ELSE s

\* Math.cos
Cos(a) == Sin(a + HALF_PI)

\* atan of a ratio r in [0, 1] given in 1/1000, in 1/AngScale radian:
\* (pi/4) r - r (r - 1) (0.2447 + 0.0663 r)
AtanRatio(r) ==
  (785 * r) \div 1000 + (((r * (1000 - r)) \div 1000) * (2447 + (663 * r) \div 1000)) \div 10000

\* Math.atan2(s, c): the angle whose sine is proportional to s and cosine to c
Atan2(s, c) ==
  IF s = 0 /\ c = 0 THEN 0
  ELSE LET a == Abs(s)
           b == Abs(c)
           base == IF a <= b THEN AtanRatio((a * 1000) \div b)
                   ELSE HALF_PI - AtanRatio((b * 1000) \div a)
           ang == IF c >= 0 THEN base ELSE PI - base
       IN IF s < 0 THEN -ang ELSE ang

\* ---------------------------------------------------------------- Vector3
Vec(x, z) == [x |-> x, z |-> z]

VAdd(v, w) == Vec(v.x + w.x, v.z + w.z)

VSub(v, w) == Vec(v.x - w.x, v.z - w.z)

\* Vector3.multiplyScalar, s in units of 1/Scale
VScale(v, s) == Vec(Mul(v.x, s), Mul(v.z, s))

\* Vector3.length, for a vector whose components are below MIN_DIST
VLength(v) == ISqrt(v.x * v.x + v.z * v.z)

\* Vector3.normalize: divideScalar(length() || 1), so the zero vector stays zero
VNormalize(v) ==
  LET len == VLength(v)
  IN IF len = 0 THEN v ELSE Vec(TDiv(v.x * Scale, len), TDiv(v.z * Scale, len))

\* ------------------------------------------------------------- RobotData
VZero == Vec(0, 0)

Robot(id, isPlayer, pos, rot, type, color) ==
  [id |-> id, isPlayer |-> isPlayer, position |-> pos, velocity |-> VZero,
   rotation |-> rot, health |-> MAX_ROBOT_HEALTH, maxHealth |-> MAX_ROBOT_HEALTH,
   weaponActive |-> FALSE, isDead |-> FALSE, color |-> color, type |-> type,
   stunnedUntil |-> 0]

\* initGame: const types = ['tank', 'wedge', 'spinner']
types == <<"tank", "wedge", "spinner">>

EnemyIds == <<"enemy-0", "enemy-1", "enemy-2">>

\* initGame: the enemy pushed by iteration i of the loop (i from 0)
Enemy(i) ==
  LET angle == (i * TWO_PI) \div ENEMY_COUNT
  IN Robot(EnemyIds[i + 1], FALSE,
           Vec(Mul(Cos(angle), SPAWN_DIST), Mul(Sin(angle), SPAWN_DIST)),
           PI + angle, types[(i % Len(types)) + 1], "#ef4444")

\* initGame: initialRobots, the player first and then the enemies
InitialRobots ==
  <<Robot("player", TRUE, VZero, 0, "spinner", "#facc15")>>
    \o [k \in 1..ENEMY_COUNT |-> Enemy(k - 1)]

\* CloneRobot, were the copy built field by field with a fresh isDead
CloneRobotAlive(r) ==
  [r EXCEPT !.velocity = Vec(r.velocity.x, r.velocity.z),
            !.position = Vec(r.position.x, r.position.z),
            !.isDead = FALSE]

\* ClonedVectors, were the copy only the spread `{...r}`
SpreadOnly == {}

\* the Vector3 fields the copy replaces by a clone(); the spread copies every other
\* field by value, and a Vector3 field it copied alone would be the object of the
\* robot read
ClonedVectors == {"velocity", "position"}

\* robots.map(r => ({...r, velocity: r.velocity.clone(), position: r.position.clone()}))
CloneRobot(r) ==
  [r EXCEPT !.velocity = Vec(r.velocity.x, r.velocity.z),
            !.position = Vec(r.position.x, r.position.z)]

\* CloneRobots, were the copies collected last robot first
CloneRobotsReversed(rs) == [k \in 1..Len(rs) |-> CloneRobot(rs[Len(rs) + 1 - k])]

CloneRobots(rs) == [k \in 1..Len(rs) |-> CloneRobot(rs[k])]

\* the robots of the collection a frame read, once the frame has worked on its
\* copy `done`: every method the frame calls on a Vector3 (add, multiplyScalar,
\* the assignments to x and z) changes the object in place, so a vector the copy
\* shares with the robot read shows the frame's work; the other fields are
\* primitives, assigned in the copy alone
ReadBack(rs, done) ==
  [k \in 1..Len(rs) |->
     [rs[k] EXCEPT
        !.velocity = IF "velocity" \in ClonedVectors THEN rs[k].velocity
                     ELSE done[k].velocity,
        !.position = IF "position" \in ClonedVectors THEN rs[k].position
                     ELSE done[k].position]]

\* updatedRobots.find(r => r.isPlayer): the index of the first player, 0 for undefined
FindPlayer(rs) ==
  IF \E k \in 1..Len(rs) : rs[k].isPlayer
  THEN CHOOSE k \in 1..Len(rs) :
         rs[k].isPlayer /\ \A m \in 1..(k - 1) : ~rs[m].isPlayer
  ELSE 0

\* PlayerLost, were the test only `!player`
PlayerMissing(rs) == FindPlayer(rs) = 0

\* if (!player || player.isDead)
PlayerLost(rs) ==
  LET p == FindPlayer(rs) IN p = 0 \/ rs[p].isDead

\* updatedRobots.filter(r => !r.isPlayer && !r.isDead)
AliveEnemies(rs) == {k \in 1..Len(rs) : ~rs[k].isPlayer /\ ~rs[k].isDead}

\* NoEnemyLeft, were the filter only `!r.isPlayer`
NoEnemyAtAll(rs) == {k \in 1..Len(rs) : ~rs[k].isPlayer} = {}

\* if (enemies.length === 0)
NoEnemyLeft(rs) == AliveEnemies(rs) = {}

\* ----------------------------------------------------------- 1. movement
\* keys[code]: a code never pressed is undefined, which is falsy
Held(ks, code) == code \in ks

\* PlayerSteer, were the weapon on just as long as Space is held
PlayerSteerReleasing(bot, ks) ==
  LET rot1 == IF Held(ks, "ArrowLeft") \/ Held(ks, "KeyA")
              THEN bot.rotation + TURN_SPEED ELSE bot.rotation
      rot2 == IF Held(ks, "ArrowRight") \/ Held(ks, "KeyD")
              THEN rot1 - TURN_SPEED ELSE rot1
      forward == Vec(Sin(rot2), Cos(rot2))
      up == Held(ks, "ArrowUp") \/ Held(ks, "KeyW")
      down == Held(ks, "ArrowDown") \/ Held(ks, "KeyS")
      fwd1 == IF up THEN VScale(forward, MOVE_SPEED) ELSE forward
      vel1 == IF up THEN VAdd(bot.velocity, fwd1) ELSE bot.velocity
      fwd2 == IF down THEN VScale(fwd1, -MOVE_SPEED) ELSE fwd1
      vel2 == IF down THEN VAdd(vel1, fwd2) ELSE vel1
  IN [bot EXCEPT !.rotation = rot2, !.velocity = vel2,
                 !.weaponActive = Held(ks, "Space")]

\* the player branch of the steering step
PlayerSteer(bot, ks) ==
  LET rot1 == IF Held(ks, "ArrowLeft") \/ Held(ks, "KeyA")
              THEN bot.rotation + TURN_SPEED ELSE bot.rotation
      rot2 == IF Held(ks, "ArrowRight") \/ Held(ks, "KeyD")
              THEN rot1 - TURN_SPEED ELSE rot1
      forward == Vec(Sin(rot2), Cos(rot2))
      up == Held(ks, "ArrowUp") \/ Held(ks, "KeyW")
      down == Held(ks, "ArrowDown") \/ Held(ks, "KeyS")
      \* multiplyScalar scales `forward` in place and returns it
      fwd1 == IF up THEN VScale(forward, MOVE_SPEED) ELSE forward
      vel1 == IF up THEN VAdd(bot.velocity, fwd1) ELSE bot.velocity
      fwd2 == IF down THEN VScale(fwd1, -MOVE_SPEED) ELSE fwd1
      vel2 == IF down THEN VAdd(vel1, fwd2) ELSE vel1
  IN [bot EXCEPT !.rotation = rot2, !.velocity = vel2,
                 !.weaponActive = bot.weaponActive \/ Held(ks, "Space")]

\* while (diff < -Math.PI) diff += Math.PI * 2; while (diff > Math.PI) diff -= Math.PI * 2
RECURSIVE WrapAngle(_)
WrapAngle(diff) ==
  IF diff < -PI THEN WrapAngle(diff + TWO_PI)
  ELSE IF diff > PI THEN WrapAngle(diff - TWO_PI)
  ELSE diff

\* the signed angular difference from the enemy's facing to the bearing of the
\* player; atan2 does not depend on the length of its argument, and normalize()
\* leaves the zero vector zero, so the bearing is taken of the difference itself
AngleDiff(bot, player) ==
  LET d == VSub(player.position, bot.position)
  IN WrapAngle(Atan2(d.x, d.z) - bot.rotation)

\* the enemy branch of the steering step; fire: Math.random() < 0.005
AISteer(bot, player, fire) ==
  LET diff == AngleDiff(bot, player)
      rot1 == bot.rotation + Sign(diff) * Min(Abs(diff), AI_TURN)
      forward == Vec(Sin(rot1), Cos(rot1))
      vel1 == IF Abs(diff) < AI_THRUST_ANGLE
              THEN VAdd(bot.velocity, VScale(forward, Mul(MOVE_SPEED, ENEMY_SPEED_MULT)))
              ELSE bot.velocity
  IN [bot EXCEPT !.rotation = rot1, !.velocity = vel1,
                 !.weaponActive = bot.weaponActive \/ (bot.type = "spinner" /\ fire)]

\* Steer, were the test `now >= bot.stunnedUntil` left out
SteerThroughStun(bot, player, now, ks, fire) ==
  IF bot.isPlayer THEN PlayerSteer(bot, ks) ELSE AISteer(bot, player, fire)

\* if (now >= bot.stunnedUntil) { player or enemy steering }
Steer(bot, player, now, ks, fire) ==
  IF now >= bot.stunnedUntil
  THEN IF bot.isPlayer THEN PlayerSteer(bot, ks) ELSE AISteer(bot, player, fire)
  ELSE bot

\* Integrate, were friction a loss of 1 - FRICTION on each axis
IntegrateSubtracting(bot) ==
  [bot EXCEPT !.position = VAdd(bot.position, bot.velocity),
              !.velocity = VSub(bot.velocity, Vec(Scale - FRICTION, Scale - FRICTION))]

\* bot.position.add(bot.velocity); bot.velocity.multiplyScalar(FRICTION)
Integrate(bot) ==
  [bot EXCEPT !.position = VAdd(bot.position, bot.velocity),
              !.velocity = VScale(bot.velocity, FRICTION)]

halfSize == ARENA_SIZE \div 2

wallRange == halfSize - WALL_GAP

bRad == ROBOT_RADIUS

\* WallX, were the robot's radius left out of the wall line
WallXAtArenaEdge(bot) ==
  IF Abs(bot.position.z) < wallRange
  THEN IF bot.position.x > halfSize
       THEN [bot EXCEPT !.position.x = halfSize,
                        !.velocity.x = Mul(bot.velocity.x, BOUNCE)]
       ELSE IF bot.position.x < -halfSize
       THEN [bot EXCEPT !.position.x = -halfSize,
                        !.velocity.x = Mul(bot.velocity.x, BOUNCE)]
       ELSE bot
  ELSE bot

\* X-axis wall check
WallX(bot) ==
  IF Abs(bot.position.z) < wallRange
  THEN IF bot.position.x > halfSize - bRad
       THEN [bot EXCEPT !.position.x = halfSize - bRad,
                        !.velocity.x = Mul(bot.velocity.x, BOUNCE)]
       ELSE IF bot.position.x < -halfSize + bRad
       THEN [bot EXCEPT !.position.x = -halfSize + bRad,
                        !.velocity.x = Mul(bot.velocity.x, BOUNCE)]
       ELSE bot
  ELSE bot

\* Z-axis wall check
WallZ(bot) ==
  IF Abs(bot.position.x) < wallRange
  THEN IF bot.position.z > halfSize - bRad
       THEN [bot EXCEPT !.position.z = halfSize - bRad,
                        !.velocity.z = Mul(bot.velocity.z, BOUNCE)]
       ELSE IF bot.position.z < -halfSize + bRad
       THEN [bot EXCEPT !.position.z = -halfSize + bRad,
                        !.velocity.z = Mul(bot.velocity.z, BOUNCE)]
       ELSE bot
  ELSE bot

\* isOutOfBoundsX || isOutOfBoundsZ
IsOutOfBounds(pos) ==
  Abs(pos.x) > halfSize + PIT_MARGIN \/ Abs(pos.z) > halfSize + PIT_MARGIN

\* PitCheck, were `bot.health = 0` left out
PitCheckKeepingHealth(bot) ==
  IF IsOutOfBounds(bot.position) THEN [bot EXCEPT !.isDead = TRUE] ELSE bot

\* Final "Pit" check
PitCheck(bot) ==
  IF IsOutOfBounds(bot.position)
  THEN [bot EXCEPT !.isDead = TRUE, !.health = 0]
  ELSE bot

\* steering and physics application of the robot at index k, before the walls
FreeBot(rs, k, now, ks, fire) ==
  Integrate(Steer(rs[k], rs[FindPlayer(rs)], now, ks, k \in fire))

\* MoveBot, were `if (bot.isDead) return` left out
MoveBotWithDead(rs, k, now, ks, fire) ==
  [rs EXCEPT ![k] = PitCheck(WallZ(WallX(FreeBot(rs, k, now, ks, fire))))]

\* one iteration of updatedRobots.forEach(bot => ...) of step 1, on the robot at
\* index k; `player` is the object found before the loop, read as it is now
MoveBot(rs, k, now, ks, fire) ==
  IF rs[k].isDead THEN rs
  ELSE [rs EXCEPT ![k] = PitCheck(WallZ(WallX(FreeBot(rs, k, now, ks, fire))))]

RECURSIVE MoveFrom(_, _, _, _, _)
MoveFrom(rs, k, now, ks, fire) ==
  IF k > Len(rs) THEN rs
  ELSE MoveFrom(MoveBot(rs, k, now, ks, fire), k + 1, now, ks, fire)

\* step 1 over the whole collection, in index order
MoveAll(rs, now, ks, fire) == MoveFrom(rs, 1, now, ks, fire)

\* each robot as its iteration of step 1 has it when the wall checks begin
RECURSIVE FreeFrom(_, _, _, _, _)
FreeFrom(rs, k, now, ks, fire) ==
  IF k > Len(rs) THEN <<>>
  ELSE <<IF rs[k].isDead THEN rs[k] ELSE FreeBot(rs, k, now, ks, fire)>>
       \o FreeFrom(MoveBot(rs, k, now, ks, fire), k + 1, now, ks, fire)

FreeAll(rs, now, ks, fire) == FreeFrom(rs, 1, now, ks, fire)

\* ------------------------------------------------------ 2. heavy collisions
\* Damage, were the result not clamped
DamageUnclamped(health, d) == health - d

\* Math.max(0, health - d)
Damage(health, d) == Max(0, health - d)

\* MarkDead, were the test `health < 0`
MarkDeadBelowZero(r) == IF r.health < 0 THEN [r EXCEPT !.isDead = TRUE] ELSE r

\* if (health <= 0) isDead = true
MarkDead(r) == IF r.health <= 0 THEN [r EXCEPT !.isDead = TRUE] ELSE r

\* SpinnerOn, were `r1.weaponActive &&` left out
SpinnerAlways(r) == r.type = "spinner"

\* r1.weaponActive && r1.type === 'spinner'
SpinnerOn(r) == r.weaponActive /\ r.type = "spinner"

\* dist < minDist, dist being r1.position.distanceTo(r2.position); a pair further
\* apart than minDist on one axis is further apart than minDist
Overlapping(r1, r2) ==
  LET d == VSub(r1.position, r2.position)
  IN /\ Abs(d.x) < MIN_DIST
     /\ Abs(d.z) < MIN_DIST
     /\ VLength(d) < MIN_DIST

\* Resolve, were only the entity that lost more health stunned
ResolveStunningLoser(rs, i, j, now) ==
  LET r1 == rs[i]
      r2 == rs[j]
      d == VSub(r1.position, r2.position)
      dist == VLength(d)
      normal == VNormalize(d)
      overlap == MIN_DIST - dist
      knock == KNOCKBACK_FORCE + (IF SpinnerOn(r1) THEN SPINNER_KNOCK ELSE 0)
                               + (IF SpinnerOn(r2) THEN SPINNER_KNOCK ELSE 0)
      d1 == 1 + (IF SpinnerOn(r2) THEN WEAPON_DAMAGE ELSE 0)
      d2 == 1 + (IF SpinnerOn(r1) THEN WEAPON_DAMAGE ELSE 0)
      n1 == [r1 EXCEPT
               !.position = VAdd(r1.position, VScale(normal, Mul(overlap, SEPARATION))),
               !.velocity = VAdd(r1.velocity, VScale(normal, knock)),
               !.health = Damage(r1.health, d1),
               !.stunnedUntil = IF d1 >= d2 THEN now + STUN_TIME ELSE r1.stunnedUntil]
      n2 == [r2 EXCEPT
               !.position = VAdd(r2.position, VScale(normal, Mul(-overlap, SEPARATION))),
               !.velocity = VAdd(r2.velocity, VScale(normal, -knock)),
               !.health = Damage(r2.health, d2),
               !.stunnedUntil = IF d2 >= d1 THEN now + STUN_TIME ELSE r2.stunnedUntil]
  IN [rs EXCEPT ![i] = MarkDead(n1), ![j] = MarkDead(n2)]

\* the body of `if (dist < minDist)` for the pair (i, j)
Resolve(rs, i, j, now) ==
  LET r1 == rs[i]
      r2 == rs[j]
      d == VSub(r1.position, r2.position)
      dist == VLength(d)
      normal == VNormalize(d)
      overlap == MIN_DIST - dist
      knock == KNOCKBACK_FORCE + (IF SpinnerOn(r1) THEN SPINNER_KNOCK ELSE 0)
                               + (IF SpinnerOn(r2) THEN SPINNER_KNOCK ELSE 0)
      d1 == 1 + (IF SpinnerOn(r2) THEN WEAPON_DAMAGE ELSE 0)
      d2 == 1 + (IF SpinnerOn(r1) THEN WEAPON_DAMAGE ELSE 0)
      n1 == [r1 EXCEPT
               !.position = VAdd(r1.position, VScale(normal, Mul(overlap, SEPARATION))),
               !.velocity = VAdd(r1.velocity, VScale(normal, knock)),
               !.health = Damage(r1.health, d1),
               !.stunnedUntil = now + STUN_TIME]
      n2 == [r2 EXCEPT
               !.position = VAdd(r2.position, VScale(normal, Mul(-overlap, SEPARATION))),
               !.velocity = VAdd(r2.velocity, VScale(normal, -knock)),
               !.health = Damage(r2.health, d2),
               !.stunnedUntil = now + STUN_TIME]
  IN [rs EXCEPT ![i] = MarkDead(n1), ![j] = MarkDead(n2)]

\* CollidePair, were `if (r1.isDead || r2.isDead) continue` left out
CollidePairWithDead(rs, i, j, now) ==
  IF Overlapping(rs[i], rs[j]) THEN Resolve(rs, i, j, now) ELSE rs

\* the body of the inner loop for the pair (i, j)
CollidePair(rs, i, j, now) ==
  IF rs[i].isDead \/ rs[j].isDead THEN rs
  ELSE IF Overlapping(rs[i], rs[j]) THEN Resolve(rs, i, j, now)
  ELSE rs

\* for (i = 0 ..) for (j = i + 1 ..), from the pair (i, j) on
RECURSIVE CollideFrom(_, _, _, _)
CollideFrom(rs, i, j, now) ==
  IF i > Len(rs) THEN rs
  ELSE IF j > Len(rs) THEN CollideFrom(rs, i + 1, i + 2, now)
  ELSE CollideFrom(CollidePair(rs, i, j, now), i, j + 1, now)

CollideAll(rs, now) == CollideFrom(rs, 1, 2, now)

\* the iterations of the inner loop from the pair (i, j) on, in the order the loops
\* make them: the pair, the collection before the iteration and after it
RECURSIVE VisitsFrom(_, _, _, _)
VisitsFrom(rs, i, j, now) ==
  IF i > Len(rs) THEN <<>>
  ELSE IF j > Len(rs) THEN VisitsFrom(rs, i + 1, i + 2, now)
  ELSE LET out == CollidePair(rs, i, j, now)
       IN <<[i |-> i, j |-> j, before |-> rs, after |-> out]>>
            \o VisitsFrom(out, i, j + 1, now)

Visits(rs, now) == VisitsFrom(rs, 1, 2, now)

\* ---------------------------------------------------------- weapon decay
\* updatedRobots.forEach(bot => { if (bot.weaponActive && Math.random() < 0.04)
\* bot.weaponActive = false }); off: the robots whose draw was below 0.04
Decay(rs, off) ==
  [k \in 1..Len(rs) |->
     IF rs[k].weaponActive /\ k \in off THEN [rs[k] EXCEPT !.weaponActive = FALSE]
     ELSE rs[k]]

\* UseFrame without its first line, the return unless PLAYING
UseFrameUnguarded(gs, rs, now, ks, fire, off) ==
  LET updatedRobots == CloneRobots(rs)
  IN IF PlayerLost(updatedRobots)
     THEN [gameState |-> "GAME_OVER", robots |-> rs, moved |-> <<>>,
           visits |-> <<>>, read |-> rs]
     ELSE IF NoEnemyLeft(updatedRobots)
     THEN [gameState |-> "VICTORY", robots |-> rs, moved |-> <<>>,
           visits |-> <<>>, read |-> rs]
     ELSE LET m == MoveAll(updatedRobots, now, ks, fire)
              r == Decay(CollideAll(m, now), off)
          IN [gameState |-> gs, robots |-> r, moved |-> m,
              visits |-> Visits(m, now), read |-> ReadBack(rs, r)]

\* UseFrame, were the loss and win checks made after the collisions, on the
\* collection about to be published
UseFrameEvaluatingLast(gs, rs, now, ks, fire, off) ==
  IF gs # "PLAYING"
  THEN [gameState |-> gs, robots |-> rs, moved |-> <<>>, visits |-> <<>>, read |-> rs]
  ELSE LET m == MoveAll(CloneRobots(rs), now, ks, fire)
           r == Decay(CollideAll(m, now), off)
       IN [gameState |-> IF PlayerLost(r) THEN "GAME_OVER"
                         ELSE IF NoEnemyLeft(r) THEN "VICTORY"
                         ELSE gs,
           robots |-> r, moved |-> m,
           visits |-> Visits(m, now), read |-> ReadBack(rs, r)]

\* UseFrame, were the win check made before the loss check
UseFrameWinFirst(gs, rs, now, ks, fire, off) ==
  IF gs # "PLAYING"
  THEN [gameState |-> gs, robots |-> rs, moved |-> <<>>, visits |-> <<>>, read |-> rs]
  ELSE LET updatedRobots == CloneRobots(rs)
       IN IF NoEnemyLeft(updatedRobots)
          THEN [gameState |-> "VICTORY", robots |-> rs, moved |-> <<>>,
                visits |-> <<>>, read |-> rs]
          ELSE IF PlayerLost(updatedRobots)
          THEN [gameState |-> "GAME_OVER", robots |-> rs, moved |-> <<>>,
                visits |-> <<>>, read |-> rs]
          ELSE LET m == MoveAll(updatedRobots, now, ks, fire)
                   r == Decay(CollideAll(m, now), off)
               IN [gameState |-> gs, robots |-> r, moved |-> m,
                   visits |-> Visits(m, now), read |-> ReadBack(rs, r)]

\* ------------------------------------------------------------- the frame
\* What one call of the useFrame callback does, given the props of the last render
\* (gs, rs), the clock, the held keys and the random draws: the game state it sets,
\* the collection it publishes (rs itself when it publishes nothing), the
\* collection as it stood between step 1 and step 2 (empty when step 1 never ran),
\* the iterations of the collision loops, and the collection it read as the frame
\* leaves it.
UseFrame(gs, rs, now, ks, fire, off) ==
  IF gs # "PLAYING"
  THEN [gameState |-> gs, robots |-> rs, moved |-> <<>>, visits |-> <<>>, read |-> rs]
  ELSE LET updatedRobots == CloneRobots(rs)
       IN IF PlayerLost(updatedRobots)
          THEN [gameState |-> "GAME_OVER", robots |-> rs, moved |-> <<>>,
                visits |-> <<>>, read |-> rs]
          ELSE IF NoEnemyLeft(updatedRobots)
          THEN [gameState |-> "VICTORY", robots |-> rs, moved |-> <<>>,
                visits |-> <<>>, read |-> rs]
          ELSE LET m == MoveAll(updatedRobots, now, ks, fire)
                   r == Decay(CollideAll(m, now), off)
               IN [gameState |-> gs, robots |-> r, moved |-> m,
                   visits |-> Visits(m, now), read |-> ReadBack(rs, r)]

\* ------------------------------------------ the second copy: src/index.tsx
\* index.tsx holds a copy of the whole application in one file: the constants,
\* the frame callback and initGame are written out again there.  They are
\* translated here from that file, on the same Vector3 and Math operators.
Idx_ARENA_SIZE == 22 * Scale
Idx_WALL_GAP == 5 * Scale
Idx_ROBOT_RADIUS == (8 * Scale) \div 10
Idx_MAX_ROBOT_HEALTH == 100
Idx_MOVE_SPEED == (8 * Scale) \div 1000
Idx_ENEMY_SPEED_MULT == (4 * Scale) \div 10
Idx_TURN_SPEED == (8 * AngScale) \div 100
Idx_FRICTION == (92 * Scale) \div 100
Idx_KNOCKBACK_FORCE == (15 * Scale) \div 100
Idx_WEAPON_DAMAGE == 15
Idx_ENEMY_COUNT == 3

\* ROBOT_COLORS.PLAYER
Idx_PLAYER_COLOR == "#facc15"

\* the constants of index.tsx and those of constants.ts, in the order of both files
Idx_Constants ==
  <<Idx_ARENA_SIZE, Idx_WALL_GAP, Idx_ROBOT_RADIUS, Idx_MAX_ROBOT_HEALTH,
    Idx_MOVE_SPEED, Idx_ENEMY_SPEED_MULT, Idx_TURN_SPEED, Idx_FRICTION,
    Idx_KNOCKBACK_FORCE, Idx_WEAPON_DAMAGE, Idx_ENEMY_COUNT, Idx_PLAYER_COLOR>>

Constants ==
  <<ARENA_SIZE, WALL_GAP, ROBOT_RADIUS, MAX_ROBOT_HEALTH, MOVE_SPEED,
    ENEMY_SPEED_MULT, TURN_SPEED, FRICTION, KNOCKBACK_FORCE, WEAPON_DAMAGE,
    ENEMY_COUNT, "#facc15">>

\* initGame: the object pushed by iteration i of the loop (i from 0)
Idx_Enemy(i) ==
  LET angle == (i * TWO_PI) \div Idx_ENEMY_COUNT
      dist == 6 * Scale
      ids == <<"enemy-0", "enemy-1", "enemy-2">>
      kinds == <<"tank", "wedge", "spinner">>
  IN [id |-> ids[i + 1], isPlayer |-> FALSE,
      position |-> Vec(Mul(Cos(angle), dist), Mul(Sin(angle), dist)),
      velocity |-> Vec(0, 0), rotation |-> PI + angle,
      health |-> Idx_MAX_ROBOT_HEALTH, maxHealth |-> Idx_MAX_ROBOT_HEALTH,
      weaponActive |-> FALSE, isDead |-> FALSE, color |-> "#ef4444",
      type |-> kinds[(i % Len(kinds)) + 1], stunnedUntil |-> 0]

\* initGame: initialRobots
Idx_InitialRobots ==
  << [id |-> "player", isPlayer |-> TRUE, position |-> Vec(0, 0),
      velocity |-> Vec(0, 0), rotation |-> 0, health |-> Idx_MAX_ROBOT_HEALTH,
      maxHealth |-> Idx_MAX_ROBOT_HEALTH, weaponActive |-> FALSE, isDead |-> FALSE,
      color |-> Idx_PLAYER_COLOR, type |-> "spinner", stunnedUntil |-> 0] >>
    \o [k \in 1..Idx_ENEMY_COUNT |-> Idx_Enemy(k - 1)]

\* initGame: setRobots(initialRobots); setGameState(GameState.PLAYING)
Idx_InitGame == [gameState |-> "PLAYING", robots |-> Idx_InitialRobots]

\* the player branch, lines 217-222
Idx_PlayerSteer(bot, ks) ==
  LET left == IF "ArrowLeft" \in ks \/ "KeyA" \in ks
              THEN bot.rotation + Idx_TURN_SPEED ELSE bot.rotation
      rot == IF "ArrowRight" \in ks \/ "KeyD" \in ks THEN left - Idx_TURN_SPEED ELSE left
      forward == Vec(Sin(rot), Cos(rot))
      up == "ArrowUp" \in ks \/ "KeyW" \in ks
      down == "ArrowDown" \in ks \/ "KeyS" \in ks
      \* forward.multiplyScalar(..) scales the one object `forward` each time
      scaled == IF up THEN VScale(forward, Idx_MOVE_SPEED) ELSE forward
      gained == IF up THEN VAdd(bot.velocity, scaled) ELSE bot.velocity
      rescaled == VScale(scaled, -Idx_MOVE_SPEED)
  IN [bot EXCEPT !.rotation = rot,
                 !.velocity = IF down THEN VAdd(gained, rescaled) ELSE gained,
                 !.weaponActive = IF "Space" \in ks /\ ~bot.weaponActive THEN TRUE
                                  ELSE bot.weaponActive]

\* the enemy branch, lines 224-234
Idx_AISteer(bot, player, fire) ==
  LET to == VSub(player.position, bot.position)
      diff == WrapAngle(Atan2(to.x, to.z) - bot.rotation)
      rot == bot.rotation + Sign(diff) * Min(Abs(diff), (Idx_TURN_SPEED * 3) \div 10)
      forward == Vec(Sin(rot), Cos(rot))
  IN [bot EXCEPT !.rotation = rot,
                 !.velocity = IF Abs(diff) < (5 * AngScale) \div 10
                              THEN VAdd(bot.velocity,
                                        VScale(forward, Mul(Idx_MOVE_SPEED, Idx_ENEMY_SPEED_MULT)))
                              ELSE bot.velocity,
                 !.weaponActive = IF bot.type = "spinner" /\ fire THEN TRUE
                                  ELSE bot.weaponActive]

\* lines 237-249: integration, the two wall checks and the pit check
Idx_Bound(bot) ==
  LET halfSize1 == Idx_ARENA_SIZE \div 2
      wallRange1 == halfSize1 - Idx_WALL_GAP
      line == halfSize1 - Idx_ROBOT_RADIUS
      p0 == VAdd(bot.position, bot.velocity)
      v0 == VScale(bot.velocity, Idx_FRICTION)
      hitX == Abs(p0.z) < wallRange1 /\ (p0.x > line \/ p0.x < -line)
      px == IF hitX THEN (IF p0.x > line THEN line ELSE -line) ELSE p0.x
      vx == IF hitX THEN TDiv(v0.x * (-3), 10) ELSE v0.x
      hitZ == Abs(px) < wallRange1 /\ (p0.z > line \/ p0.z < -line)
      pz == IF hitZ THEN (IF p0.z > line THEN line ELSE -line) ELSE p0.z
      vz == IF hitZ THEN TDiv(v0.z * (-3), 10) ELSE v0.z
      out == Abs(px) > halfSize1 + Scale \div 2 \/ Abs(pz) > halfSize1 + Scale \div 2
  IN [bot EXCEPT !.position = Vec(px, pz), !.velocity = Vec(vx, vz),
                 !.isDead = IF out THEN TRUE ELSE bot.isDead,
                 !.health = IF out THEN 0 ELSE bot.health]

\* updatedRobots.forEach(bot => ...), lines 213-250, from index k on; `player` is
\* the object found at line 209, which the loop itself moves
RECURSIVE Idx_MoveFrom(_, _, _, _, _, _)
Idx_MoveFrom(rs, p, k, now, ks, fire) ==
  IF k > Len(rs) THEN rs
  ELSE IF rs[k].isDead THEN Idx_MoveFrom(rs, p, k + 1, now, ks, fire)
  ELSE LET bot == rs[k]
           steered == IF now >= bot.stunnedUntil
                      THEN IF bot.isPlayer THEN Idx_PlayerSteer(bot, ks)
                           ELSE Idx_AISteer(bot, rs[p], k \in fire)
                      ELSE bot
       IN Idx_MoveFrom([rs EXCEPT ![k] = Idx_Bound(steered)], p, k + 1, now, ks, fire)

\* Idx_Pair, were the base knockback the 0.5 of a heavier build
Idx_PairThrownFar(rs, i, j, now) ==
  LET r1 == rs[i]
      r2 == rs[j]
      d == VSub(r1.position, r2.position)
      reach == (Idx_ROBOT_RADIUS * 21) \div 10
  IN IF r1.isDead \/ r2.isDead THEN rs
     ELSE IF ~(Abs(d.x) < reach /\ Abs(d.z) < reach /\ VLength(d) < reach) THEN rs
     ELSE LET normal == VNormalize(d)
              overlap == reach - VLength(d)
              on1 == r1.weaponActive /\ r1.type = "spinner"
              on2 == r2.weaponActive /\ r2.type = "spinner"
              knock == (5 * Scale) \div 10 + (IF on1 THEN (2 * Scale) \div 10 ELSE 0)
                                           + (IF on2 THEN (2 * Scale) \div 10 ELSE 0)
              d1 == 1 + (IF on2 THEN Idx_WEAPON_DAMAGE ELSE 0)
              d2 == 1 + (IF on1 THEN Idx_WEAPON_DAMAGE ELSE 0)
              h1 == IF r1.health - d1 > 0 THEN r1.health - d1 ELSE 0
              h2 == IF r2.health - d2 > 0 THEN r2.health - d2 ELSE 0
          IN [rs EXCEPT
                ![i] = [r1 EXCEPT
                          !.position = VAdd(r1.position, VScale(normal, Mul(overlap, (4 * Scale) \div 10))),
                          !.velocity = VAdd(r1.velocity, VScale(normal, knock)),
                          !.health = h1,
                          !.stunnedUntil = now + (2 * ClockScale) \div 10,
                          !.isDead = IF h1 <= 0 THEN TRUE ELSE r1.isDead],
                ![j] = [r2 EXCEPT
                          !.position = VAdd(r2.position, VScale(normal, Mul(-overlap, (4 * Scale) \div 10))),
                          !.velocity = VAdd(r2.velocity, VScale(normal, -knock)),
                          !.health = h2,
                          !.stunnedUntil = now + (2 * ClockScale) \div 10,
                          !.isDead = IF h2 <= 0 THEN TRUE ELSE r2.isDead]]

\* the body of the inner loop, lines 254-272, for the pair (i, j)
Idx_Pair(rs, i, j, now) ==
  LET r1 == rs[i]
      r2 == rs[j]
      d == VSub(r1.position, r2.position)
      reach == (Idx_ROBOT_RADIUS * 21) \div 10
  IN IF r1.isDead \/ r2.isDead THEN rs
     ELSE IF ~(Abs(d.x) < reach /\ Abs(d.z) < reach /\ VLength(d) < reach) THEN rs
     ELSE LET normal == VNormalize(d)
              overlap == reach - VLength(d)
              on1 == r1.weaponActive /\ r1.type = "spinner"
              on2 == r2.weaponActive /\ r2.type = "spinner"
              knock == Idx_KNOCKBACK_FORCE + (IF on1 THEN (2 * Scale) \div 10 ELSE 0)
                                           + (IF on2 THEN (2 * Scale) \div 10 ELSE 0)
              d1 == 1 + (IF on2 THEN Idx_WEAPON_DAMAGE ELSE 0)
              d2 == 1 + (IF on1 THEN Idx_WEAPON_DAMAGE ELSE 0)
              h1 == IF r1.health - d1 > 0 THEN r1.health - d1 ELSE 0
              h2 == IF r2.health - d2 > 0 THEN r2.health - d2 ELSE 0
          IN [rs EXCEPT
                ![i] = [r1 EXCEPT
                          !.position = VAdd(r1.position, VScale(normal, Mul(overlap, (4 * Scale) \div 10))),
                          !.velocity = VAdd(r1.velocity, VScale(normal, knock)),
                          !.health = h1,
                          !.stunnedUntil = now + (2 * ClockScale) \div 10,
                          !.isDead = IF h1 <= 0 THEN TRUE ELSE r1.isDead],
                ![j] = [r2 EXCEPT
                          !.position = VAdd(r2.position, VScale(normal, Mul(-overlap, (4 * Scale) \div 10))),
                          !.velocity = VAdd(r2.velocity, VScale(normal, -knock)),
                          !.health = h2,
                          !.stunnedUntil = now + (2 * ClockScale) \div 10,
                          !.isDead = IF h2 <= 0 THEN TRUE ELSE r2.isDead]]

\* the two loops, lines 252-274, from the pair (i, j) on
RECURSIVE Idx_PairsFrom(_, _, _, _)
Idx_PairsFrom(rs, i, j, now) ==
  IF i > Len(rs) THEN rs
  ELSE IF j > Len(rs) THEN Idx_PairsFrom(rs, i + 1, i + 2, now)
  ELSE Idx_PairsFrom(Idx_Pair(rs, i, j, now), i, j + 1, now)

\* the callback of useFrame, lines 205-281: the game state it sets and the
\* collection it publishes (rs itself when it publishes nothing)
Idx_UseFrame(gs, rs, now, ks, fire, off) ==
  IF gs # "PLAYING" THEN [gameState |-> gs, robots |-> rs]
  ELSE LET updatedRobots == [k \in 1..Len(rs) |->
                               [rs[k] EXCEPT !.velocity = Vec(rs[k].velocity.x, rs[k].velocity.z),
                                             !.position = Vec(rs[k].position.x, rs[k].position.z)]]
           found == {k \in 1..Len(rs) : updatedRobots[k].isPlayer}
           p == IF found = {} THEN 0 ELSE CHOOSE k \in found : \A m \in found : k <= m
       IN IF p = 0 \/ updatedRobots[p].isDead
          THEN [gameState |-> "GAME_OVER", robots |-> rs]
          ELSE IF Cardinality({k \in 1..Len(rs) : ~updatedRobots[k].isPlayer
                                                  /\ ~updatedRobots[k].isDead}) = 0
          THEN [gameState |-> "VICTORY", robots |-> rs]
          ELSE LET hit == Idx_PairsFrom(Idx_MoveFrom(updatedRobots, p, 1, now, ks, fire),
                                        1, 2, now)
               IN [gameState |-> gs,
                   robots |-> [k \in 1..Len(hit) |->
                                 IF hit[k].weaponActive /\ k \in off
                                 THEN [hit[k] EXCEPT !.weaponActive = FALSE]
                                 ELSE hit[k]]]

\* ---------------------------------------------------------------- bounds
\* frame callbacks in one run
MaxFrames == 3

\* the clock advance between two frames, in 1/ClockScale second
FrameDts == {1}

\* the key codes the keyboard sends
KeyCodes == {"ArrowUp", "Space"}

\* the key codes that can be found held when the keys do not change during a run
HeldCodes == {"ArrowUp", "ArrowDown", "ArrowLeft", "ArrowRight", "Space"}

\* ----------------------------------------------------------------- state
VARIABLES
  gameState,      \* App: useState<GameState>
  robots,         \* App: useState<RobotData[]>
  keys,           \* useKeyboard: the codes whose entry is true
  clock,          \* state.clock.getElapsedTime()
  frames,         \* frame callbacks run so far
  last,           \* the operation that made this state
  prevGameState,  \* gameState before that operation
  prevRobots,     \* robots before that operation
  moved,          \* updatedRobots between step 1 and step 2 of the last frame
  now,            \* the clock value the last simulated frame read
  visits,         \* the iterations of the collision loops of the last frame
  readRobots,     \* the collection the last operation read, as the operation left it
  keysRead,       \* the keys the last frame found held
  keysBefore,     \* the keys the frame before it found held
  fired,          \* the enemies whose Math.random() < 0.005 draw held in the last frame
  decayed         \* the robots whose Math.random() < 0.04 draw held in the last frame

vars == <<gameState, robots, keys, clock, frames, last, prevGameState, prevRobots,
          moved, now, visits, readRobots, keysRead, keysBefore, fired, decayed>>

\* ------------------------------------------------------- mid-match states
\* A match lasts thousands of frames, so the states in which robots meet each
\* other, the walls and the pits are given directly: collections initGame made and
\* frames moved, damaged and killed.  P and V take hundredths of a unit.
P(x, z) == Vec(x * (Scale \div 100), z * (Scale \div 100))

\* robot k of initGame, later in the match
Later(k, pos, vel, rot, health, weaponActive, stunnedUntil) ==
  [InitialRobots[k] EXCEPT !.position = pos, !.velocity = vel, !.rotation = rot,
                           !.health = health, !.weaponActive = weaponActive,
                           !.stunnedUntil = stunnedUntil]

\* robot k of initGame after it fell into a pit
Fallen(k, pos) ==
  [InitialRobots[k] EXCEPT !.position = pos, !.velocity = P(5, 5),
                           !.health = 0, !.isDead = TRUE]

\* the clock of the mid-match states
MidClock == 5 * ClockScale

MidMatch ==
  { \* a duel of two robots one hit from death, about to touch
    << Later(1, P(0, 0), P(0, 0), 0, 1, FALSE, 0),
       Later(2, P(170, 0), P(-5, 0), 4712, 1, FALSE, 0),
       Fallen(3, P(1160, 800)), Fallen(4, P(-1160, -800)) >>,
    \* the player, weapon spinning, about to hit the last enemy
    << Later(1, P(0, 0), P(0, 0), 0, 100, TRUE, 0),
       Fallen(2, P(1160, 800)), Fallen(3, P(800, -1160)),
       Later(4, P(0, 170), P(0, -5), PI, 10, FALSE, 0) >>,
    \* the last enemy sliding through a corner gap, the player stunned at rest
    << Later(1, P(0, 0), P(0, 0), 0, 100, FALSE, MidClock + STUN_TIME),
       Fallen(2, P(1160, 800)),
       Later(3, P(1145, 800), P(10, 0), 1571, 40, FALSE, MidClock + STUN_TIME),
       Fallen(4, P(-1160, -800)) >>,
    \* the player ramming an enemy that stands at the edge of a corner gap
    << Later(1, P(985, 800), P(10, 0), 1571, 100, FALSE, 0),
       Later(2, P(1148, 800), P(0, 0), 4712, 60, FALSE, 0),
       Fallen(3, P(-800, 1160)), Fallen(4, P(-1160, -800)) >>,
    \* robots running into the walls, all four alive; the player, thrown by a
    \* pile-up, fast enough to pass the pit line in one frame
    << Later(1, P(0, -1010), P(0, -150), PI, 100, FALSE, 0),
       Later(2, P(1015, 0), P(30, 0), 1571, 100, FALSE, MidClock + STUN_TIME),
       Later(3, P(-500, 500), P(0, 0), 2356, 100, FALSE, 0),
       Later(4, P(-500, -500), P(0, 0), 785, 100, FALSE, 0) >>,
    \* a stunned player hit by an enemy one hit from death, a second enemy
    \* standing right behind the first
    << Later(1, P(0, 0), P(0, 0), 0, 100, FALSE, MidClock + STUN_TIME),
       Later(2, P(170, 0), P(-10, 0), 4712, 1, FALSE, 0),
       Later(3, P(230, 140), P(0, 0), 4712, 100, FALSE, MidClock + STUN_TIME),
       Fallen(4, P(-1160, -800)) >>,
    \* the player thrown onto a stunned enemy, their centres about to coincide; two
    \* enemies that met in a corner gap the frame before, one sliding on into the pit
    << Later(1, P(0, 0), P(170, 0), 1571, 100, FALSE, MidClock + STUN_TIME),
       Later(2, P(180, 0), P(-10, 0), 4712, 100, FALSE, MidClock + STUN_TIME),
       Later(3, P(1145, 800), P(10, -11), 1571, 99, FALSE, MidClock + STUN_TIME),
       Later(4, P(1060, 890), P(-10, 11), 785, 99, FALSE, MidClock + STUN_TIME) >> }

\* ------------------------------------------------------------------ Init
\* the state after construction: useState(GameState.START), useState([]), useState({})
Constructed ==
  /\ gameState = "START"
  /\ robots = <<>>
  /\ clock = 0

\* a match under way
Playing ==
  /\ gameState = "PLAYING"
  /\ robots \in MidMatch
  /\ clock = MidClock

Init ==
  /\ Constructed \/ Playing
  /\ keys = {}
  /\ frames = 0
  /\ last = "init"
  /\ prevGameState = gameState
  /\ prevRobots = robots
  /\ moved = <<>>
  /\ now = clock
  /\ visits = <<>>
  /\ readRobots = robots
  /\ keysRead = {}
  /\ keysBefore = {}
  /\ fired = {}
  /\ decayed = {}

\* --------------------------------------------------------------- actions
\* useKeyboard: handleKeyDown
KeyDown(code) ==
  /\ keys' = keys \cup {code}
  /\ keys' # keys
  /\ UNCHANGED <<gameState, robots, clock, frames, last, prevGameState, prevRobots,
                 moved, now, visits, readRobots, keysRead, keysBefore, fired, decayed>>

\* useKeyboard: handleKeyUp
KeyUp(code) ==
  /\ keys' = keys \ {code}
  /\ keys' # keys
  /\ UNCHANGED <<gameState, robots, clock, frames, last, prevGameState, prevRobots,
                 moved, now, visits, readRobots, keysRead, keysBefore, fired, decayed>>

\* InitGame, were the state it sets START
InitGameToStart ==
  /\ gameState \in {"START", "GAME_OVER", "VICTORY"}
  /\ robots' = InitialRobots
  /\ gameState' = "START"
  /\ last' = "initGame"
  /\ prevGameState' = gameState
  /\ prevRobots' = robots
  /\ moved' = <<>>
  /\ visits' = <<>>
  /\ readRobots' = robots
  /\ fired' = {}
  /\ decayed' = {}
  /\ UNCHANGED <<keys, clock, frames, now, keysRead, keysBefore>>

\* initGame, the onClick of the ENGAGE and RE-INITIALIZE buttons, which are rendered
\* in START and in GAME_OVER or VICTORY
InitGame ==
  /\ gameState \in {"START", "GAME_OVER", "VICTORY"}
  /\ robots' = InitialRobots
  /\ gameState' = "PLAYING"
  /\ last' = "initGame"
  /\ prevGameState' = gameState
  /\ prevRobots' = robots
  /\ moved' = <<>>
  /\ visits' = <<>>
  /\ readRobots' = robots
  /\ fired' = {}
  /\ decayed' = {}
  /\ UNCHANGED <<keys, clock, frames, now, keysRead, keysBefore>>

\* the enemies whose Math.random() < 0.005 draw is reached in a frame at clock t
\* and can switch a weapon on
FireSites(gs, rs, t) ==
  IF gs = "PLAYING" /\ ~PlayerLost(rs) /\ ~NoEnemyLeft(rs)
  THEN {k \in 1..Len(rs) : /\ ~rs[k].isDead /\ ~rs[k].isPlayer /\ rs[k].type = "spinner"
                           /\ ~(t < rs[k].stunnedUntil) /\ ~rs[k].weaponActive}
  ELSE {}

\* the robots whose Math.random() < 0.04 draw is reached in a frame
DecaySites(out) ==
  IF out.moved = <<>> THEN {}
  ELSE {k \in 1..Len(out.robots) : out.robots[k].weaponActive}

\* one call of the useFrame callback
Frame ==
  /\ frames < MaxFrames
  /\ \E dt \in FrameDts :
     \E fire \in SUBSET FireSites(gameState, robots, clock + dt) :
     \E off \in SUBSET DecaySites(UseFrame(gameState, robots, clock + dt, keys, fire, {})) :
       LET out == UseFrame(gameState, robots, clock + dt, keys, fire, off)
       IN /\ gameState' = out.gameState
          /\ robots' = out.robots
          /\ moved' = out.moved
          /\ visits' = out.visits
          /\ readRobots' = out.read
          /\ keysRead' = IF out.moved = <<>> THEN {} ELSE keys
          /\ fired' = fire
          /\ decayed' = off
          /\ now' = IF gameState = "PLAYING" THEN clock + dt ELSE now
          /\ clock' = clock + dt
  /\ frames' = frames + 1
  /\ last' = "frame"
  /\ prevGameState' = gameState
  /\ prevRobots' = robots
  /\ keysBefore' = (keysRead \cap {"Space"})
  /\ UNCHANGED keys

Next ==
  \/ \E code \in KeyCodes : KeyDown(code)
  \/ \E code \in KeyCodes : KeyUp(code)
  \/ InitGame
  \/ Frame

Spec == Init /\ [][Next]_vars

\* ------------------------------------------------- runs with the keys held
\* further mid-match states
MidMatchMore ==
  { \* an enemy coming back out of a corner gap, beyond the wall line and heading
    \* inward; a spinner, its weapon on, sliding through another gap into the pit
    << Later(1, P(0, 0), P(0, 0), 0, 100, FALSE, 0),
       Later(2, P(1080, 605), P(-5, -10), 4000, 100, FALSE, MidClock + STUN_TIME),
       Fallen(3, P(-800, 1160)),
       Later(4, P(1145, -800), P(10, 0), 1571, 40, TRUE, MidClock + STUN_TIME) >> }

\* a match under way, or about to start, with any set of keys held
InitHeld ==
  /\ Constructed \/ Playing \/ (gameState = "PLAYING" /\ robots \in MidMatchMore /\ clock = MidClock)
  /\ keys \in SUBSET HeldCodes
  /\ frames = 0
  /\ last = "init"
  /\ prevGameState = gameState
  /\ prevRobots = robots
  /\ moved = <<>>
  /\ now = clock
  /\ visits = <<>>
  /\ readRobots = robots
  /\ keysRead = {}
  /\ keysBefore = {}
  /\ fired = {}
  /\ decayed = {}

NextHeld ==
  \/ InitGame
  \/ Frame

SpecHeld == InitHeld /\ [][NextHeld]_vars

\* ------------------------------------------------------------ properties
\* The predicates of the properties are stated on the collections themselves,
\* independently of the operators of the frame.

\* the last operation was a frame callback that found the match running
RanFrame == last = "frame" /\ prevGameState = "PLAYING"

\* ... and went on to simulate (steps 1 and 2) and publish
Simulated == RanFrame /\ moved # <<>>

NoPlayerIn(rs) == \A k \in 1..Len(rs) : ~rs[k].isPlayer

PlayerDeadIn(rs) == \E k \in 1..Len(rs) : rs[k].isPlayer /\ rs[k].isDead

EnemyAliveIn(rs) == \E k \in 1..Len(rs) : ~rs[k].isPlayer /\ ~rs[k].isDead

\* beyond H + 0.5 on either axis
BeyondPit(pos) ==
  \/ pos.x > 115 * (Scale \div 10) \/ pos.x < -115 * (Scale \div 10)
  \/ pos.z > 115 * (Scale \div 10) \/ pos.z < -115 * (Scale \div 10)

\* C1: in every reachable state every entity has 0 <= health <= maxHealth, and
\* maxHealth is the creation-time value MAX_ROBOT_HEALTH.
C1_HealthInRange ==
  \A k \in 1..Len(robots) :
    /\ robots[k].maxHealth = 100
    /\ 0 <= robots[k].health
    /\ robots[k].health <= robots[k].maxHealth

\* C1 witness: a collision took more than the entity had left, and the result was
\* clamped to 0.
C1_ClampedAtZero ==
  /\ Simulated
  /\ \E k \in 1..Len(robots) :
       /\ prevRobots[k].health > 1
       /\ prevRobots[k].health < 16
       /\ ~BeyondPit(moved[k].position)
       /\ robots[k].health = 0

\* C2: in every published collection an entity with health 0 has isDead = true.
C2_ZeroHealthIsDead ==
  \A k \in 1..Len(robots) : robots[k].health = 0 => robots[k].isDead

\* C2 witness: the base contact damage of a collision took an entity's last point
\* of health.
C2_KilledByContact ==
  /\ Simulated
  /\ \E k \in 1..Len(robots) :
       /\ prevRobots[k].health = 1
       /\ ~moved[k].isDead
       /\ robots[k].health = 0
       /\ robots[k].isDead

\* C3: an entity that is dead in a published collection is dead, under the same
\* id and at the same place of the collection, in the collection the next frame
\* leaves; only initGame replaces it by a live one.
C3_DeadStaysDead ==
  last = "frame" =>
    /\ Len(robots) = Len(prevRobots)
    /\ \A k \in 1..Len(prevRobots) :
         prevRobots[k].isDead =>
           robots[k].id = prevRobots[k].id /\ robots[k].isDead

\* C3 witness: a simulated frame ran over an entity a collision had killed inside
\* the arena.
C3_FrameOverTheDead ==
  /\ Simulated
  /\ \E k \in 1..Len(prevRobots) :
       /\ prevRobots[k].isDead
       /\ ~BeyondPit(prevRobots[k].position)
       /\ robots[k].isDead

\* C4: a frame callback that finds the match in START, GAME_OVER or VICTORY leaves
\* the collection and the match state as they were, whatever keys are held.
C4_FrozenUnlessRunning ==
  (last = "frame" /\ prevGameState # "PLAYING") =>
    robots = prevRobots /\ gameState = prevGameState

\* C4 witness: a frame callback ran after the match was lost.
C4_FrameAfterGameOver ==
  /\ last = "frame"
  /\ prevGameState = "GAME_OVER"
  /\ robots # <<>>

\* C5: a frame that finds the match running and the player dead, or no player,
\* sets GAME_OVER and publishes nothing.
C5_LostWithoutUpdate ==
  (RanFrame /\ (NoPlayerIn(prevRobots) \/ PlayerDeadIn(prevRobots))) =>
    gameState = "GAME_OVER" /\ robots = prevRobots /\ moved = <<>>

\* C5 witness: a frame found the player killed by the frame before.
C5_FoundPlayerDead ==
  /\ RanFrame
  /\ PlayerDeadIn(prevRobots)
  /\ gameState = "GAME_OVER"

\* C6: a frame that finds the match running, the player alive and no enemy alive
\* sets VICTORY.
C6_WonWhenNoEnemyLeft ==
  (RanFrame /\ ~NoPlayerIn(prevRobots) /\ ~PlayerDeadIn(prevRobots)
            /\ ~EnemyAliveIn(prevRobots)) =>
    gameState = "VICTORY"

\* C6 witness: a frame found the last enemy killed by a collision, inside the arena.
C6_LastEnemyKilledByCollision ==
  /\ RanFrame
  /\ gameState = "VICTORY"
  /\ \A k \in 1..Len(prevRobots) :
       ~prevRobots[k].isPlayer => prevRobots[k].isDead
  /\ \E k \in 1..Len(prevRobots) :
       ~prevRobots[k].isPlayer /\ ~BeyondPit(prevRobots[k].position)

\* a second case of C6: the last enemy fell into a pit
C6_LastEnemyFell ==
  /\ RanFrame
  /\ gameState = "VICTORY"
  /\ \A k \in 1..Len(prevRobots) :
       ~prevRobots[k].isPlayer => BeyondPit(prevRobots[k].position)

\* the collection initGame makes
FreshCollection(rs) ==
  /\ Len(rs) = 1 + 3
  /\ rs[1].isPlayer
  /\ \A k \in 2..Len(rs) : ~rs[k].isPlayer
  /\ \A k \in 1..Len(rs) :
       /\ rs[k].health = rs[k].maxHealth
       /\ rs[k].maxHealth = 100
       /\ ~rs[k].isDead
       /\ ~rs[k].weaponActive
       /\ rs[k].velocity = [x |-> 0, z |-> 0]
       /\ rs[k].stunnedUntil = 0

\* C7: no frame callback leaves GAME_OVER or VICTORY; the operation that does is
\* initGame, which sets PLAYING and a fresh collection of one player and
\* ENEMY_COUNT enemies.
C7_TerminalUntilInitGame ==
  /\ (last = "frame" /\ prevGameState \in {"GAME_OVER", "VICTORY"}) =>
       gameState = prevGameState
  /\ (prevGameState \in {"GAME_OVER", "VICTORY"} /\ gameState # prevGameState) =>
       last = "initGame"
  /\ last = "initGame" => gameState = "PLAYING" /\ FreshCollection(robots)

\* C7 witness: initGame invoked after a victory.
C7_RestartAfterVictory ==
  /\ last = "initGame"
  /\ prevGameState = "VICTORY"
  /\ gameState = "PLAYING"

Verdict(rs) ==
  IF NoPlayerIn(rs) \/ PlayerDeadIn(rs) THEN "GAME_OVER"
  ELSE IF ~EnemyAliveIn(rs) THEN "VICTORY"
  ELSE "PLAYING"

C9_PitDeathWhenPublished ==
  Simulated =>
    \A k \in 1..Len(robots) :
      BeyondPit(robots[k].position) => robots[k].isDead /\ robots[k].health = 0

\* C9 amended: every entity that is beyond H + 0.5 when step 1 (movement and
\* boundary) of a frame ends is dead with health 0, there and in the collection
\* the frame publishes, whatever its health was; the collision step, which
\* follows the pit check, moves no such entity.
C9_PitDeathAfterMovement ==
  Simulated =>
    \A k \in 1..Len(moved) :
      BeyondPit(moved[k].position) =>
        /\ moved[k].isDead /\ moved[k].health = 0
        /\ robots[k].isDead /\ robots[k].health = 0
        /\ robots[k].position = moved[k].position

\* C9 witness: a healthy entity slid over the pit line in step 1.
C9_FellWhileHealthy ==
  /\ Simulated
  /\ \E k \in 1..Len(moved) :
       /\ ~prevRobots[k].isDead
       /\ prevRobots[k].health > 1
       /\ ~BeyondPit(prevRobots[k].position)
       /\ BeyondPit(moved[k].position)
       /\ robots[k].health = 0

\* inside the solid part of a wall: |c| < H - G
InWallRange(c) == c < 6 * Scale /\ c > -6 * Scale

\* at most H - radius from the centre
InsideWall(c) == c <= 102 * (Scale \div 10) /\ c >= -102 * (Scale \div 10)

\* C10: when step 1 of a frame ends, every alive entity within the solid range
\* of the walls on one axis is at most H - radius from the centre on the other.
C10_WallContainment ==
  Simulated =>
    \A k \in 1..Len(moved) :
      ~moved[k].isDead =>
        /\ InWallRange(moved[k].position.z) => InsideWall(moved[k].position.x)
        /\ InWallRange(moved[k].position.x) => InsideWall(moved[k].position.z)

\* a second case of C10: the velocity of an entity would have carried it past the
\* pit line behind a wall in one frame, and it stands on the wall line, alive
C10_StoppedShortOfPit ==
  /\ Simulated
  /\ \E k \in 1..Len(moved) :
       /\ ~moved[k].isDead
       /\ InWallRange(moved[k].position.x)
       /\ prevRobots[k].position.z + prevRobots[k].velocity.z < -115 * (Scale \div 10)
       /\ moved[k].position.z = -102 * (Scale \div 10)

\* C10 witness: the velocity of an entity would have carried it past a wall, and
\* it stands on the wall line.
C10_StoppedAtWall ==
  /\ Simulated
  /\ \E k \in 1..Len(moved) :
       /\ ~moved[k].isDead
       /\ InWallRange(moved[k].position.z)
       /\ prevRobots[k].position.x + prevRobots[k].velocity.x > 102 * (Scale \div 10)
       /\ moved[k].position.x = 102 * (Scale \div 10)

\* alive at the start of the last frame and stunned at the time the frame read
StunnedAt(k) == ~prevRobots[k].isDead /\ now < prevRobots[k].stunnedUntil

\* alive at the start of the last frame and free to steer
SteeringAt(k) == ~prevRobots[k].isDead /\ now >= prevRobots[k].stunnedUntil

\* where the velocity an entity had at the start of the last frame carries it
Carried(k) ==
  [x |-> prevRobots[k].position.x + prevRobots[k].velocity.x,
   z |-> prevRobots[k].position.z + prevRobots[k].velocity.z]

\* the velocity an entity had at the start of the last frame, times FRICTION
Slowed(k) ==
  [x |-> TDiv(prevRobots[k].velocity.x * 92, 100),
   z |-> TDiv(prevRobots[k].velocity.z * 92, 100)]

\* a coordinate the boundary step leaves alone, or puts on a wall line
AdvancedTo(c, to) == c = to \/ c = 102 * (Scale \div 10) \/ c = -102 * (Scale \div 10)

\* a velocity component the boundary step leaves alone, or reverses at 0.3
KeptOrBounced(v, slowed) == v = slowed \/ v = TDiv(slowed * (-3), 10)

\* C11: an alive entity that is stunned when a frame simulates keeps its facing
\* and its weaponActive through step 1 and gets no thrust: its position is
\* advanced by its velocity and its velocity multiplied by FRICTION, the boundary
\* step apart; an entity that is not stunned is steered: the player by the keys
\* held, an enemy by turning or thrusting toward the player.
C11_StunnedSkipsSteering ==
  Simulated =>
    \A k \in 1..Len(prevRobots) :
      /\ StunnedAt(k) =>
           /\ moved[k].rotation = prevRobots[k].rotation
           /\ moved[k].weaponActive = prevRobots[k].weaponActive
           /\ AdvancedTo(moved[k].position.x, Carried(k).x)
           /\ AdvancedTo(moved[k].position.z, Carried(k).z)
           /\ KeptOrBounced(moved[k].velocity.x, Slowed(k).x)
           /\ KeptOrBounced(moved[k].velocity.z, Slowed(k).z)
           /\ (InsideWall(Carried(k).x) /\ InsideWall(Carried(k).z)) =>
                moved[k].position = Carried(k) /\ moved[k].velocity = Slowed(k)
      /\ (SteeringAt(k) /\ prevRobots[k].isPlayer) =>
           /\ "Space" \in keysRead => moved[k].weaponActive
           /\ "ArrowUp" \in keysRead => moved[k].velocity # Slowed(k)
      /\ (SteeringAt(k) /\ ~prevRobots[k].isPlayer) =>
           moved[k].rotation # prevRobots[k].rotation \/ moved[k].velocity # Slowed(k)

\* C11 witness: a stunned player slid on with thrust and weapon keys held, and
\* neither gained speed nor switched its weapon on.
C11_StunnedPlayerSlides ==
  /\ Simulated
  /\ {"ArrowUp", "Space"} \subseteq keysRead
  /\ \E k \in 1..Len(prevRobots) :
       /\ StunnedAt(k)
       /\ prevRobots[k].isPlayer
       /\ prevRobots[k].velocity # [x |-> 0, z |-> 0]
       /\ moved[k].position = Carried(k)
       /\ moved[k].position # prevRobots[k].position
       /\ ~moved[k].weaponActive

\* a second case of C11: a stunned enemy that does not face the player slid on
C11_StunnedEnemySlides ==
  /\ Simulated
  /\ \E k \in 1..Len(prevRobots) :
       /\ StunnedAt(k)
       /\ ~prevRobots[k].isPlayer
       /\ moved[k].position # prevRobots[k].position
       /\ moved[k].rotation = prevRobots[k].rotation

\* the iterations of the collision loops of the last frame
VisitIds == 1..Len(visits)

\* the two entities of iteration n, before it and after it
First(n) == visits[n].before[visits[n].i]

Second(n) == visits[n].before[visits[n].j]

FirstAfter(n) == visits[n].after[visits[n].i]

SecondAfter(n) == visits[n].after[visits[n].j]

\* the centres of r1 and r2 are less than 2.1 x 0.8 apart
Within(r1, r2) ==
  LET dx == r1.position.x - r2.position.x
      dz == r1.position.z - r2.position.z
      reach == 168 * (Scale \div 100)
  IN /\ dx < reach /\ dx > -reach
     /\ dz < reach /\ dz > -reach
     /\ dx * dx + dz * dz < reach * reach

\* iteration n found two alive entities in contact: a resolved collision
Touching(n) == ~First(n).isDead /\ ~Second(n).isDead /\ Within(First(n), Second(n))

\* a Spinner with its weapon on
ActiveSpinner(r) == r.type = "spinner" /\ r.weaponActive

\* what a hit by r takes: 1, and WEAPON_DAMAGE more from a Spinner with its weapon on
HitBy(r) == IF ActiveSpinner(r) THEN 1 + 15 ELSE 1

\* health h after the loss of d, not below 0
After(h, d) == IF h - d < 0 THEN 0 ELSE h - d

\* C12: a resolved collision leaves each of the two entities with
\* max(0, health - (1 + (15 if the other one is a Spinner with its weapon on))),
\* whatever its own archetype and weapon state.
C12_DamageOfOneCollision ==
  \A n \in VisitIds :
    Touching(n) =>
      /\ FirstAfter(n).health = After(First(n).health, HitBy(Second(n)))
      /\ SecondAfter(n).health = After(Second(n).health, HitBy(First(n)))

\* C12 witness: a Spinner with its weapon on hit an entity with more than 16
\* left, which lost 16 while the Spinner lost 1.
C12_SpinnerTookSixteen ==
  \E n \in VisitIds :
    /\ Touching(n)
    /\ ActiveSpinner(First(n))
    /\ ~ActiveSpinner(Second(n))
    /\ Second(n).health > 16
    /\ SecondAfter(n).health = Second(n).health - 16
    /\ FirstAfter(n).health = First(n).health - 1

\* a second case of C12: no weapon on, and each lost exactly 1
C12_BothLostOne ==
  \E n \in VisitIds :
    /\ Touching(n)
    /\ First(n).type = "spinner"
    /\ ~First(n).weaponActive
    /\ Second(n).health > 1
    /\ SecondAfter(n).health = Second(n).health - 1
    /\ FirstAfter(n).health = First(n).health - 1

\* entity k was one of the two of a resolved collision of the last frame
HitInFrame(k) ==
  \E n \in VisitIds : Touching(n) /\ (visits[n].i = k \/ visits[n].j = k)

\* the end of a stun that begins at the time the last frame read: now + 0.2
StunEnd == now + (2 * ClockScale) \div 10

\* C13: a resolved collision sets stunnedUntil of both entities to now + 0.2;
\* step 1, an iteration of the collision loops that resolves nothing, the entities
\* outside the pair and the weapon decay leave stunnedUntil as it was, so a frame
\* publishes now + 0.2 for the entities that collided and the value read for the
\* others.
C13_MutualStun ==
  /\ \A n \in VisitIds :
       /\ Touching(n) =>
            FirstAfter(n).stunnedUntil = StunEnd /\ SecondAfter(n).stunnedUntil = StunEnd
       /\ \A k \in 1..Len(visits[n].before) :
            (~Touching(n) \/ (k # visits[n].i /\ k # visits[n].j)) =>
              visits[n].after[k].stunnedUntil = visits[n].before[k].stunnedUntil
  /\ Simulated =>
       \A k \in 1..Len(prevRobots) :
         moved[k].stunnedUntil = prevRobots[k].stunnedUntil
  /\ last = "frame" =>
       \A k \in 1..Len(prevRobots) :
         robots[k].stunnedUntil =
           IF HitInFrame(k) THEN StunEnd ELSE prevRobots[k].stunnedUntil

\* C13 witness: a Spinner with its weapon on and the entity it hit, which lost
\* 16 to the Spinner's 1, were both stunned until now + 0.2.
C13_StunnedWinnerAndLoser ==
  \E n \in VisitIds :
    /\ Touching(n)
    /\ ActiveSpinner(First(n))
    /\ ~ActiveSpinner(Second(n))
    /\ First(n).stunnedUntil < StunEnd
    /\ Second(n).stunnedUntil < StunEnd
    /\ robots[visits[n].i].stunnedUntil = StunEnd
    /\ robots[visits[n].j].stunnedUntil = StunEnd

\* the pairs (i, j), i < j, of a collection of n entities, i ascending and then j
RECURSIVE PairsFrom(_, _, _)
PairsFrom(i, j, n) ==
  IF i > n THEN <<>>
  ELSE IF j > n THEN PairsFrom(i + 1, i + 2, n)
  ELSE <<(<<i, j>>)>> \o PairsFrom(i, j + 1, n)

\* an entity apart from its weapon, which the decay that follows the pass may
\* switch off
Body(r) == [r EXCEPT !.weaponActive = FALSE]

\* the entities of a collection apart from those of the pair of iteration n
Others(n) == (1..Len(visits[n].before)) \ {visits[n].i, visits[n].j}

\* C14: the collision pass of a frame visits the pairs (i, j), i < j, in nested
\* index order, each on the collection the iteration before left, and changes
\* nothing but the two entities of a pair both alive when it is visited: an
\* entity whose health reaches 0 in an iteration is dead when the iteration
\* ends, and an entity dead then, or dead when step 1 ended, is the same in
\* every later iteration and in the collection published, its pairs changing
\* nothing.
C14_PairsOfTheAlive ==
  Simulated =>
    /\ [n \in VisitIds |-> <<visits[n].i, visits[n].j>>] = PairsFrom(1, 2, Len(moved))
    /\ visits[1].before = moved
    /\ \A n \in VisitIds :
         /\ n > 1 => visits[n].before = visits[n - 1].after
         /\ (First(n).isDead \/ Second(n).isDead) => visits[n].after = visits[n].before
         /\ \A k \in Others(n) : visits[n].after[k] = visits[n].before[k]
         /\ FirstAfter(n).health = 0 => FirstAfter(n).isDead
         /\ SecondAfter(n).health = 0 => SecondAfter(n).isDead
         /\ \A k \in 1..Len(moved) :
              visits[n].before[k].isDead =>
                /\ visits[n].after[k] = visits[n].before[k]
                /\ Body(robots[k]) = Body(visits[n].before[k])
    /\ \A k \in 1..Len(moved) :
         /\ Body(robots[k]) = Body(visits[Len(visits)].after[k])
         /\ moved[k].isDead => Body(robots[k]) = Body(moved[k])

\* C14 witness: an entity killed in one pair of the pass was in contact with an
\* alive entity in a later pair, which changed nothing.
C14_KilledThenSkipped ==
  /\ Simulated
  /\ \E n, m \in VisitIds :
       /\ n < m
       /\ Touching(n)
       /\ SecondAfter(n).isDead
       /\ visits[m].i = visits[n].j
       /\ ~Second(m).isDead
       /\ Within(First(m), Second(m))
       /\ visits[m].after = visits[m].before

\* a second case of C14: an entity that fell into a pit in step 1 was in contact
\* with an alive entity, and the pair changed nothing
C14_FallenThenSkipped ==
  /\ Simulated
  /\ \E n \in VisitIds :
       /\ ~prevRobots[visits[n].i].isDead
       /\ moved[visits[n].i].isDead
       /\ ~Second(n).isDead
       /\ Within(First(n), Second(n))
       /\ visits[n].after = visits[n].before

\* the vector from b to a
Minus(a, b) == [x |-> a.x - b.x, z |-> a.z - b.z]

\* the length of a vector shorter than 3 units, rounded down
Norm(v) == ISqrt(v.x * v.x + v.z * v.z)

\* delta is len times the unit vector along d, to the resolution of the
\* arithmetic: 4 / Scale on each axis
Along(delta, d, len) ==
  /\ Abs(delta.x * Norm(d) - d.x * len) <= 4 * Norm(d)
  /\ Abs(delta.z * Norm(d) - d.z * len) <= 4 * Norm(d)

\* the changes of position and velocity of the two entities in iteration n
FirstPush(n) == Minus(FirstAfter(n).position, First(n).position)

SecondPush(n) == Minus(SecondAfter(n).position, Second(n).position)

FirstKick(n) == Minus(FirstAfter(n).velocity, First(n).velocity)

SecondKick(n) == Minus(SecondAfter(n).velocity, Second(n).velocity)

\* the line from the second entity of iteration n to the first, and the depth
\* of their contact: 2.1 x 0.8 less their distance
Apart(n) == Minus(First(n).position, Second(n).position)

Penetration(n) == 168 * (Scale \div 100) - Norm(Apart(n))

\* C15: a resolved collision of r1 and r2 whose centres differ moves r1 by
\* 0.4 p along the unit normal n from r2 to r1 and r2 by the opposite, and adds
\* k n to r1's velocity and the opposite to r2's, k being KNOCKBACK_FORCE when
\* neither is a Spinner with its weapon on and more when one is.
C15_SeparationAndKnockback ==
  \A n \in VisitIds :
    (Touching(n) /\ First(n).position # Second(n).position) =>
      /\ Along(FirstPush(n), Apart(n), (4 * Penetration(n)) \div 10)
      /\ SecondPush(n) = [x |-> -FirstPush(n).x, z |-> -FirstPush(n).z]
      /\ Along(FirstKick(n), Apart(n), Norm(FirstKick(n)))
      /\ SecondKick(n) = [x |-> -FirstKick(n).x, z |-> -FirstKick(n).z]
      /\ Norm(FirstKick(n)) >= 15 * (Scale \div 100) - 4
      /\ (ActiveSpinner(First(n)) \/ ActiveSpinner(Second(n)))
           <=> Norm(FirstKick(n)) > 15 * (Scale \div 100)

\* C15 witness: a Spinner with its weapon on met an entity to one side of it;
\* the two were pushed apart along the line of their centres and thrown apart
\* harder than the base knockback.
C15_ThrownBySpinner ==
  \E n \in VisitIds :
    /\ Touching(n)
    /\ ActiveSpinner(First(n))
    /\ Penetration(n) > 0
    /\ Norm(Apart(n)) > 0
    /\ Norm(FirstPush(n)) > 0
    /\ Norm(FirstKick(n)) > 15 * (Scale \div 100)
    /\ SecondKick(n) = [x |-> -FirstKick(n).x, z |-> -FirstKick(n).z]

\* a second case of C15: no weapon on, a contact on neither axis, and the base
\* knockback
C15_ThrownAtBase ==
  \E n \in VisitIds :
    /\ Touching(n)
    /\ ~ActiveSpinner(First(n)) /\ ~ActiveSpinner(Second(n))
    /\ Apart(n).x # 0 /\ Apart(n).z # 0
    /\ Norm(FirstPush(n)) > 0
    /\ Norm(FirstKick(n)) <= 15 * (Scale \div 100)
    /\ Norm(FirstKick(n)) >= 15 * (Scale \div 100) - 4

\* iteration n found two alive entities at one and the same position
Coinciding(n) == Touching(n) /\ First(n).position = Second(n).position

\* C16 as claimed: a resolved collision of two entities at an identical position
\* uses a fallback normal of unit length, so the two end 0.8 x 2.1 x 0.8 apart
\* and get opposite changes of velocity that are not zero.
C16_FallbackNormal ==
  \A n \in VisitIds :
    Coinciding(n) =>
      /\ Norm(Minus(FirstAfter(n).position, SecondAfter(n).position))
           >= (8 * 168 * (Scale \div 100)) \div 10 - 4
      /\ FirstKick(n) # [x |-> 0, z |-> 0]
      /\ SecondKick(n) = [x |-> -FirstKick(n).x, z |-> -FirstKick(n).z]

\* what the collision response does with two entities at an identical position:
\* it takes their health and stuns them, and leaves both where they are, with
\* the velocities they had
C16_CoincidingPairStaysPut ==
  \E n \in VisitIds :
    /\ Coinciding(n)
    /\ FirstAfter(n).position = SecondAfter(n).position
    /\ FirstKick(n) = [x |-> 0, z |-> 0]
    /\ SecondKick(n) = [x |-> 0, z |-> 0]
    /\ FirstAfter(n).health = First(n).health - 1
    /\ SecondAfter(n).health = Second(n).health - 1
    /\ FirstAfter(n).stunnedUntil = StunEnd

\* step 1 of the last frame switched the weapon of entity k on
SwitchedOn(k) == ~prevRobots[k].weaponActive /\ moved[k].weaponActive

\* C17 as claimed: step 1 switches the player's weapon on only in a frame that
\* finds the weapon key held after a frame that found it released, and never
\* switches it off.
C17_RisingEdgeOnly ==
  Simulated =>
    \A k \in 1..Len(prevRobots) :
      prevRobots[k].isPlayer =>
        /\ SwitchedOn(k) => "Space" \in keysRead /\ "Space" \notin keysBefore
        /\ prevRobots[k].weaponActive => moved[k].weaponActive

\* C17 amended: the weapon key is read as a level: after step 1 of a frame the
\* player's weapon is on exactly if it was on before, or the player is not
\* stunned and the frame finds the key held, whatever the frame before found;
\* step 1 never switches it off.
C17_HeldMeansOn ==
  Simulated =>
    \A k \in 1..Len(prevRobots) :
      (prevRobots[k].isPlayer /\ ~prevRobots[k].isDead) =>
        moved[k].weaponActive =
          (prevRobots[k].weaponActive \/ (SteeringAt(k) /\ "Space" \in keysRead))

\* C17 witness: the weapon key was held in two frames running, the decay of the
\* first switched the weapon off and step 1 of the second switched it on again.
C17_ReactivatedWhileHeld ==
  /\ Simulated
  /\ "Space" \in keysRead
  /\ "Space" \in keysBefore
  /\ \E k \in 1..Len(prevRobots) : prevRobots[k].isPlayer /\ SwitchedOn(k)

\* a second case of C17: the key was released and the weapon stayed on
C17_OnAfterRelease ==
  /\ Simulated
  /\ "Space" \notin keysRead
  /\ "Space" \in keysBefore
  /\ \E k \in 1..Len(prevRobots) :
       prevRobots[k].isPlayer /\ prevRobots[k].weaponActive /\ moved[k].weaponActive

\* what an entity is from its creation on
Identity(r) == <<r.id, r.isPlayer, r.type, r.maxHealth>>

\* C18: once initGame has made it, the collection holds 1 + ENEMY_COUNT entities
\* with pairwise distinct ids, exactly one of them the player, and a frame
\* leaves their number, their order and the id, isPlayer, type and maxHealth of
\* each as they were.
C18_SameEntities ==
  /\ robots # <<>> =>
       /\ Len(robots) = 1 + 3
       /\ \A k, m \in 1..Len(robots) : robots[k].id = robots[m].id => k = m
       /\ Cardinality({k \in 1..Len(robots) : robots[k].isPlayer}) = 1
  /\ last = "frame" =>
       /\ Len(robots) = Len(prevRobots)
       /\ \A k \in 1..Len(prevRobots) : Identity(robots[k]) = Identity(prevRobots[k])

\* C18 witness: a frame simulated on the collection initGame had made and
\* published a collection that differs from it.
C18_FrameAfterInitGame ==
  /\ Simulated
  /\ FreshCollection(prevRobots)
  /\ robots # prevRobots
  /\ [k \in 1..Len(robots) |-> robots[k].id] = <<"player", "enemy-0", "enemy-1", "enemy-2">>
  /\ [k \in 1..Len(robots) |-> robots[k].type] = <<"spinner", "tank", "wedge", "spinner">>

\* what a frame may change of an entity
Mutable(r) ==
  <<r.position, r.velocity, r.rotation, r.health, r.weaponActive, r.isDead,
    r.stunnedUntil>>

AtRest(k) == ~prevRobots[k].isDead /\ prevRobots[k].velocity = [x |-> 0, z |-> 0]

\* steering gave entity k no impulse in the last frame: it was stunned, or it
\* is the player and no key was held
NoImpulse(k) == StunnedAt(k) \/ (prevRobots[k].isPlayer /\ keysRead = {})

\* no other alive entity of rs has its centre within 2.1 x 0.8 of entity k's
Alone(rs, k) ==
  \A m \in 1..Len(rs) : (m # k /\ ~rs[m].isDead) => ~Within(rs[k], rs[m])

\* C20: an alive entity at rest that steering gives no impulse (it is stunned,
\* or it is the player and no key is held) and that has no alive entity within
\* 2.1 x radius, when the frame begins and when step 1 ends, is published at
\* the position it had, at rest.
C20_RestIsKept ==
  Simulated =>
    \A k \in 1..Len(prevRobots) :
      (AtRest(k) /\ NoImpulse(k) /\ Alone(prevRobots, k) /\ Alone(moved, k)) =>
        /\ robots[k].position = prevRobots[k].position
        /\ robots[k].velocity = [x |-> 0, z |-> 0]

\* C20 witness: with no key held the player stood at rest through a frame in
\* which an enemy moved.
C20_PlayerStoodStill ==
  /\ Simulated
  /\ keysRead = {}
  /\ \E k \in 1..Len(prevRobots) :
       /\ prevRobots[k].isPlayer
       /\ SteeringAt(k)
       /\ AtRest(k) /\ Alone(prevRobots, k) /\ Alone(moved, k)
       /\ robots[k].position = prevRobots[k].position
       /\ \E m \in 1..Len(prevRobots) :
            ~moved[m].isDead /\ robots[m].position # prevRobots[m].position

\* a second case of C20: a stunned entity stood at rest
C20_StunnedStoodStill ==
  /\ Simulated
  /\ \E k \in 1..Len(prevRobots) :
       /\ StunnedAt(k)
       /\ AtRest(k) /\ Alone(prevRobots, k) /\ Alone(moved, k)
       /\ robots[k].position = prevRobots[k].position

\* the unit vector of a facing
Facing(rot) == [x |-> Sin(rot), z |-> Cos(rot)]

\* the impulse the thrust keys of a key set ask for along a facing: +MOVE_SPEED
\* times the facing for forward, -MOVE_SPEED times the facing for reverse
ThrustAsked(rot, ks) ==
  LET ahead == IF "ArrowUp" \in ks THEN 8 * (Scale \div 1000) ELSE 0
      back == IF "ArrowDown" \in ks THEN 8 * (Scale \div 1000) ELSE 0
  IN [x |-> TDiv(Facing(rot).x * ahead, Scale) - TDiv(Facing(rot).x * back, Scale),
      z |-> TDiv(Facing(rot).z * ahead, Scale) - TDiv(Facing(rot).z * back, Scale)]

\* a position the boundary step has not put on a wall line
ClearOfWalls(p) ==
  /\ p.x < 102 * (Scale \div 10) /\ p.x > -102 * (Scale \div 10)
  /\ p.z < 102 * (Scale \div 10) /\ p.z > -102 * (Scale \div 10)

\* the way the player went in step 1 of the last frame
PlayerStep == Minus(moved[1].position, prevRobots[1].position)

\* C21: in a frame that simulates with the player not stunned, the player's
\* velocity gains +MOVE_SPEED times its facing if forward is held and -MOVE_SPEED
\* times its facing if reverse is held, each whatever the other key does, so both
\* held add nothing; the step the player then takes inside the walls is its old
\* velocity plus that impulse.
C21_ThrustIndependent ==
  (Simulated /\ SteeringAt(1) /\ ClearOfWalls(moved[1].position)) =>
    PlayerStep = [x |-> prevRobots[1].velocity.x + ThrustAsked(moved[1].rotation, keysRead).x,
                  z |-> prevRobots[1].velocity.z + ThrustAsked(moved[1].rotation, keysRead).z]

\* C21 failing case: forward and reverse were both held by a player free to steer,
\* and the player gained the whole forward impulse.
C21_BothHeldThrustsForward ==
  /\ Simulated /\ SteeringAt(1)
  /\ {"ArrowUp", "ArrowDown"} \subseteq keysRead
  /\ ClearOfWalls(moved[1].position)
  /\ ThrustAsked(moved[1].rotation, {"ArrowUp"}) # [x |-> 0, z |-> 0]
  /\ PlayerStep = [x |-> prevRobots[1].velocity.x + ThrustAsked(moved[1].rotation, {"ArrowUp"}).x,
                   z |-> prevRobots[1].velocity.z + ThrustAsked(moved[1].rotation, {"ArrowUp"}).z]

\* the signed shortest angular difference from the facing enemy k had at the start
\* of the last frame to the bearing of the player, which has moved by then
BearingDiff(k) ==
  LET to == Minus(moved[1].position, prevRobots[k].position)
  IN WrapAngle(Atan2(to.x, to.z) - prevRobots[k].rotation)

\* the turn an enemy is to make for a difference d: 0.3 x TURN_SPEED at most
TurnAsked(d) ==
  LET most == (3 * ((8 * AngScale) \div 100)) \div 10
  IN IF d > most THEN most ELSE IF d < -most THEN -most ELSE d

\* the impulse an enemy is to add for a difference d along a facing:
\* MOVE_SPEED x ENEMY_SPEED_MULT if |d| < 0.5
ChaseAsked(rot, d) ==
  LET push == IF d < (5 * AngScale) \div 10 /\ d > -((5 * AngScale) \div 10)
              THEN TDiv((8 * (Scale \div 1000)) * (4 * (Scale \div 10)), Scale) ELSE 0
  IN [x |-> TDiv(Facing(rot).x * push, Scale), z |-> TDiv(Facing(rot).z * push, Scale)]

\* the way entity k went in step 1 of the last frame
StepOf(k) == Minus(moved[k].position, prevRobots[k].position)

\* C22: an alive enemy that is not stunned when a frame simulates turns by
\* sign(d) x min(|d|, 0.3 x TURN_SPEED), d being the signed shortest difference
\* from its facing to the bearing of the player: toward the player and never
\* past it; it gains MOVE_SPEED x ENEMY_SPEED_MULT along its new facing if and
\* only if |d| < 0.5.
C22_EnemyTurnsAndChases ==
  Simulated =>
    \A k \in 2..Len(prevRobots) :
      SteeringAt(k) =>
        LET d == BearingDiff(k)
            turn == moved[k].rotation - prevRobots[k].rotation
        IN /\ turn = TurnAsked(d)
           /\ turn * d >= 0
           /\ Abs(turn) <= Abs(d)
           /\ ClearOfWalls(moved[k].position) =>
                StepOf(k) = [x |-> prevRobots[k].velocity.x + ChaseAsked(moved[k].rotation, d).x,
                             z |-> prevRobots[k].velocity.z + ChaseAsked(moved[k].rotation, d).z]

\* C22 witness: in one frame an enemy far off the bearing of the player turned by
\* 0.3 x TURN_SPEED without thrust, and another, close to the bearing, turned
\* and gained speed along its new facing.
C22_OneTurnedOneChased ==
  /\ Simulated
  /\ \E k \in 2..Len(prevRobots) :
       /\ SteeringAt(k) /\ Abs(BearingDiff(k)) >= (5 * AngScale) \div 10
       /\ Abs(moved[k].rotation - prevRobots[k].rotation) = (3 * ((8 * AngScale) \div 100)) \div 10
       /\ ClearOfWalls(moved[k].position)
       /\ StepOf(k) = prevRobots[k].velocity
  /\ \E k \in 2..Len(prevRobots) :
       /\ SteeringAt(k) /\ Abs(BearingDiff(k)) < (5 * AngScale) \div 10
       /\ moved[k].rotation # prevRobots[k].rotation
       /\ ClearOfWalls(moved[k].position)
       /\ StepOf(k) # prevRobots[k].velocity

\* what the simulation is to leave alone of an entity: all but weaponActive
Remains(r) ==
  <<r.position, r.velocity, r.rotation, r.health, r.stunnedUntil, r.isDead>>

\* C23: an entity that is dead when a frame starts in PLAYING has, in the
\* published collection, the position, velocity, facing, health, stunnedUntil and
\* weaponActive it had before the frame.
C23_DeadUntouched ==
  RanFrame =>
    \A k \in 1..Len(prevRobots) :
      prevRobots[k].isDead =>
        /\ Remains(robots[k]) = Remains(prevRobots[k])
        /\ robots[k].weaponActive = prevRobots[k].weaponActive

\* C23, as the code has it: an entity that is dead when a frame starts in PLAYING
\* keeps its position, velocity, facing, health and stunnedUntil and stays dead;
\* its weaponActive is never switched on, and is switched off only by the passive
\* decay, whose draw is made for dead entities too.
C23_DeadKeepsAllButWeapon ==
  RanFrame =>
    \A k \in 1..Len(prevRobots) :
      prevRobots[k].isDead =>
        /\ Remains(robots[k]) = Remains(prevRobots[k])
        /\ robots[k].weaponActive => prevRobots[k].weaponActive
        /\ robots[k].weaponActive # prevRobots[k].weaponActive => k \in decayed

\* C23 witness: a frame simulated, and the passive decay switched off the weapon
\* of an entity that was dead when the frame started, the rest of it being kept.
C23_DeadWeaponDecayed ==
  /\ Simulated
  /\ \E k \in 1..Len(prevRobots) :
       /\ prevRobots[k].isDead /\ prevRobots[k].weaponActive
       /\ ~robots[k].weaponActive
       /\ Remains(robots[k]) = Remains(prevRobots[k])

\* the player and every enemy of a collection are dead
AllDeadIn(rs) == PlayerDeadIn(rs) /\ ~EnemyAliveIn(rs)

\* C24: the game state is one value of GameState, so never both VICTORY and
\* GAME_OVER; a frame that starts in PLAYING and finds the player and the last
\* enemy both dead sets GAME_OVER, and no frame sets VICTORY over a dead player.
C24_LossBeforeWin ==
  /\ gameState \in {"START", "PLAYING", "GAME_OVER", "VICTORY"}
  /\ (RanFrame /\ AllDeadIn(prevRobots)) => gameState = "GAME_OVER"
  /\ (RanFrame /\ gameState = "VICTORY") => ~PlayerDeadIn(prevRobots)

\* C24 witness: the player and the last enemy killed each other in one collision,
\* both at health 0 inside the arena, and the next frame set GAME_OVER.
C24_MutualKillLost ==
  /\ RanFrame /\ gameState = "GAME_OVER"
  /\ AllDeadIn(prevRobots)
  /\ prevRobots[1].health = 0 /\ ~BeyondPit(prevRobots[1].position)
  /\ \E k \in 2..Len(prevRobots) :
       /\ prevRobots[k].health = 0 /\ ~BeyondPit(prevRobots[k].position)
       /\ prevRobots[k].stunnedUntil = prevRobots[1].stunnedUntil
       /\ prevRobots[k].stunnedUntil > MidClock

\* the entities of the last frame as steering and integration left them, before
\* the boundary step
Unwalled == FreeAll(prevRobots, now, keysRead, fired)

\* within the solid range of the walls of the other axis: less than H - WALL_GAP
\* from the centre
FacingWall(c) == c < 6 * Scale /\ c > -6 * Scale

\* beyond the wall line H - radius on the positive and on the negative side
PastFarLine(c) == c > 102 * (Scale \div 10)

PastNearLine(c) == c < -102 * (Scale \div 10)

\* 0.3 times the magnitude of a component
Dampened(v) == TDiv(Abs(v) * 3, 10)

\* C25: whenever the boundary step of a frame puts an entity's coordinate on a
\* wall line, the entity's velocity on that axis is afterwards zero or points to
\* the arena centre, at 0.3 times the magnitude it had before, however the entity
\* came to be beyond the line.
C25_BounceSendsBack ==
  Simulated =>
    \A k \in 1..Len(prevRobots) :
      ~prevRobots[k].isDead =>
        LET was == Unwalled[k]
            is == moved[k]
        IN /\ (FacingWall(was.position.z) /\ PastFarLine(was.position.x)) =>
                is.velocity.x <= 0 /\ -is.velocity.x = Dampened(was.velocity.x)
           /\ (FacingWall(was.position.z) /\ PastNearLine(was.position.x)) =>
                is.velocity.x >= 0 /\ is.velocity.x = Dampened(was.velocity.x)
           /\ (FacingWall(is.position.x) /\ PastFarLine(was.position.z)) =>
                is.velocity.z <= 0 /\ -is.velocity.z = Dampened(was.velocity.z)
           /\ (FacingWall(is.position.x) /\ PastNearLine(was.position.z)) =>
                is.velocity.z >= 0 /\ is.velocity.z = Dampened(was.velocity.z)

\* C25 failing case: an entity came out of a corner gap beyond the wall line,
\* heading inward; the boundary step put it on the line and left its velocity
\* pointing at the wall.
C25_BouncedIntoWall ==
  /\ Simulated
  /\ \E k \in 1..Len(prevRobots) :
       /\ ~prevRobots[k].isDead
       /\ ~FacingWall(prevRobots[k].position.z)
       /\ FacingWall(Unwalled[k].position.z) /\ PastFarLine(Unwalled[k].position.x)
       /\ Unwalled[k].velocity.x < 0
       /\ moved[k].position.x = 102 * (Scale \div 10)
       /\ moved[k].velocity.x > 0
       /\ moved[k].velocity.x = Dampened(Unwalled[k].velocity.x)

\* the last frame changed something in a collision
Collided == \E n \in 1..Len(visits) : visits[n].before # visits[n].after

\* C26: the frame callback and initGame of index.tsx publish the collection and
\* set the game state that those of App.tsx do, from every state and for every
\* clock value, key set and outcome of the random draws, and the constants
\* written out in index.tsx are those of constants.ts.
C26_SecondCopyAgrees ==
  /\ Idx_Constants = Constants
  /\ last = "frame" =>
       Idx_UseFrame(prevGameState, prevRobots, now, keysRead, fired, decayed)
         = [gameState |-> gameState, robots |-> robots]
  /\ last = "initGame" =>
       Idx_InitGame = [gameState |-> gameState, robots |-> robots]

\* C26 witness: a frame steered the player by held keys, resolved a collision and
\* let a weapon decay, and the callback of index.tsx publishes the same collection.
C26_AgreedOnBusyFrame ==
  /\ Simulated /\ Collided
  /\ SteeringAt(1) /\ keysRead # {}
  /\ decayed # {}
  /\ robots # prevRobots
  /\ Idx_UseFrame(prevGameState, prevRobots, now, keysRead, fired, decayed).robots = robots
====
